---- MODULE Spec2Model ----
(***************************************************************************)
(* F1 data pipeline: endpoint descriptors (url_classes_abc.py), the        *)
(* handler factory (url_factory.py), the YAML loader (yaml_reader.py) and  *)
(* the pipeline orchestrator (data_pipeline.py).                           *)
(***************************************************************************)
EXTENDS Integers, Sequences, FiniteSets, TLC

VARIABLES
    file,       \* the configuration file on disk, as load_yaml_file sees it
    handlers,   \* F1DataPipeline.handlers: dict name -> handler, in insertion order
    data,       \* F1DataPipeline.data: dict name -> payload
    pc,         \* position of the caller: "idle" or inside fetch_all_data's loop
    idx,        \* fetch_all_data: index of the next handler of the loop
    ret,        \* the pipeline call in progress or last completed, and what it returned
    prev,       \* the pipeline call before it
    calls,      \* fetch_all_data: per handler name, the get_data results of the latest call; cleared by initialize
    lookup,     \* get_handler / get_data on the pipeline: the call and the value returned
    request,    \* a handler's get_data call: the handler and what its GET does
    response,   \* a handler's get_data call: the result
    fconfig,    \* URLFactory.from_config: its argument
    fresult,    \* URLFactory.from_config: its result
    dargs,      \* descriptor constructor: its arguments
    dresult     \* descriptor constructor: its result

vars == <<file, handlers, data, pc, idx, ret, prev, calls, lookup, request, response,
          fconfig, fresult, dargs, dresult>>
pipelineVars == <<file, handlers, data, pc, idx, ret, prev, calls, lookup>>
handlerVars == <<request, response>>
factoryVars == <<fconfig, fresult>>
descriptorVars == <<dargs, dresult>>

(***************************************************************************)
(* Python values: None, bool, int and str.  A str is a sequence of tokens: *)
(* literal pieces and the replacement fields "{year}", "{race_round}", ... *)
(***************************************************************************)
None == [t |-> "none", v |-> 0, s |-> <<>>]
PyBool(b) == [t |-> "bool", v |-> IF b THEN 1 ELSE 0, s |-> <<>>]
PyInt(n) == [t |-> "int", v |-> n, s |-> <<>>]
PyStr(toks) == [t |-> "str", v |-> 0, s |-> toks]

\* bool(x): None, False, 0 and "" are falsy
Truthy(x) ==
    CASE x.t = "none" -> FALSE
      [] x.t = "str" -> x.s # <<>>
      [] OTHER -> x.v # 0

\* substring in str: a replacement field is one token of the string
Contains(x, tok) == \E i \in 1..Len(x.s) : x.s[i] = tok

\* the replacement fields a template of the model may hold
ReplacementFields == {"{year}", "{race_round}", "{season}"}

\* a constructor's outcome: the resolved url, or the exception raised
Built(u) == [raised |-> FALSE, exc |-> "", url |-> u]
Raise(e) == [raised |-> TRUE, exc |-> e, url |-> <<>>]

(***************************************************************************)
(* URLConfig: the pydantic model of a descriptor's configuration           *)
(***************************************************************************)
MinYear == 1950
MaxYear == 2100
MinRace == 0
MaxRace == 30
DefaultYear == 2023
DefaultRace == 0
FactoryDefaultYear == 2023
FactoryDefaultRace == 1

\* pydantic's bool: a bool, or the ints 0 and 1
BoolValid(x) == x.t = "bool" \/ (x.t = "int" /\ x.v \in {0, 1})
\* pydantic's int: an int, or a bool taken as 0 / 1
IntValid(x) == x.t \in {"bool", "int"}
\* pydantic's HttpUrl: a string with an http(s) scheme and a host
HttpUrlValid(x) == x.t = "str" /\ Len(x.s) >= 2 /\ x.s[1] \in {"http://", "https://"}

\* @validator('template_url'): values holds only the fields validated before
\* template_url, so year_dependent / race_dependent are read as absent (None)
validate_template_url(v, values_year_dependent, values_race_dependent) ==
    IF Truthy(values_year_dependent) \/ Truthy(values_race_dependent)
    THEN Truthy(v)
    ELSE TRUE

URLConfig(url, template_url, year_dependent, race_dependent, current_race, current_year) ==
    LET ok == /\ (url.t = "none" \/ HttpUrlValid(url))
              /\ template_url.t \in {"none", "str"}
              /\ validate_template_url(template_url, None, None)
              /\ BoolValid(year_dependent)
              /\ BoolValid(race_dependent)
              /\ IntValid(current_race)
              /\ current_race.v >= MinRace /\ current_race.v <= MaxRace
              /\ IntValid(current_year)
              /\ current_year.v >= MinYear /\ current_year.v <= MaxYear
    IN [ok |-> ok,
        url |-> url,
        template_url |-> template_url,
        year_dependent |-> year_dependent.v = 1,
        race_dependent |-> race_dependent.v = 1,
        current_race |-> current_race.v,
        current_year |-> current_year.v]

\* str.format(**kw): every replacement field must be a keyword of the call;
\* keywords the template does not use are ignored
Format(template, kw) ==
    IF template.t # "str" THEN Raise("AttributeError")
    ELSE IF \E i \in 1..Len(template.s) :
                template.s[i] \in ReplacementFields /\ template.s[i] \notin DOMAIN kw
         THEN Raise("KeyError")
         ELSE Built([i \in 1..Len(template.s) |->
                        IF template.s[i] \in DOMAIN kw
                        THEN ToString(kw[template.s[i]])
                        ELSE template.s[i]])

_build_url(config) ==
    IF config.year_dependent /\ config.race_dependent
    THEN Format(config.template_url,
                [f \in {"{year}", "{race_round}"} |->
                    IF f = "{year}" THEN config.current_year ELSE config.current_race])
    ELSE IF config.year_dependent
    THEN Format(config.template_url, [f \in {"{year}"} |-> config.current_year])
    ELSE IF config.race_dependent
    THEN Format(config.template_url, [f \in {"{race_round}"} |-> config.current_race])
    ELSE IF ~Truthy(config.url) THEN Raise("ValueError")
    ELSE Built(config.url.s)

URLBase__init__(url, template_url, year_dependent, race_dependent, current_race, current_year) ==
    LET config == URLConfig(url, template_url, year_dependent, race_dependent,
                            current_race, current_year)
    IN IF ~config.ok THEN Raise("ValidationError") ELSE _build_url(config)

StaticURL__init__(url) ==
    IF ~Truthy(url) THEN Raise("ValueError")
    ELSE URLBase__init__(url, None, PyBool(FALSE), PyBool(FALSE),
                         PyInt(DefaultRace), PyInt(DefaultYear))

YearDependentURL__init__(template_url, current_year, year_dependent) ==
    IF ~Truthy(template_url) \/ ~Contains(template_url, "{year}")
    THEN Raise("ValueError")
    ELSE URLBase__init__(None, template_url, year_dependent, PyBool(FALSE),
                         PyInt(DefaultRace), current_year)

RaceDependentURL__init__(template_url, current_year, current_race) ==
    IF ~Truthy(template_url) \/ ~Contains(template_url, "{race_round}")
    THEN Raise("ValueError")
    ELSE URLBase__init__(None, template_url, PyBool(TRUE), PyBool(TRUE),
                         current_race, current_year)

\* F1_status_url, F1_season_url, F1_circuit_url
F1_static_url__init__(url) == StaticURL__init__(url)

\* F1_race_url ... F1_driverstanding_url: the arguments go on positionally, so
\* year_dependent lands on current_year and current_year on year_dependent
F1_year_url__init__(template_url, year_dependent, current_year) ==
    YearDependentURL__init__(template_url, year_dependent, current_year)

\* RaceDependentURL.__init__ takes three positional arguments besides self
RaceDependentURL_positional == 3

\* F1_pitstop_url, F1_lap_url: four arguments go on positionally
F1_race_dependent_url__init__(template_url, race_dependent, current_year, current_race) ==
    LET args == <<template_url, race_dependent, current_year, current_race>>
    IN IF Len(args) > RaceDependentURL_positional THEN Raise("TypeError")
       ELSE RaceDependentURL__init__(args[1], args[2], args[3])

(***************************************************************************)
(* URLFactory: the known-name tables and from_config                       *)
(***************************************************************************)
STATIC_ENDPOINTS == {"status", "season", "circuit"}
YEAR_DEPENDENT_ENDPOINTS == {"race", "constructor", "driver", "result", "sprint",
                             "qualify", "standings", "constructorstanding",
                             "driverstanding"}
RACE_DEPENDENT_ENDPOINTS == {"pitstop", "lap"}

\* one entry of a section: its name and the fragment it maps to; keys are the
\* keys the fragment holds, a key that is absent has the field None
Entry(name, keys, url, template_url, flag, current_year, current_race) ==
    [name |-> name, keys |-> keys, url |-> url, template_url |-> template_url,
     flag |-> flag, current_year |-> current_year, current_race |-> current_race]

\* dict.get(key, default) on the fragment
Get(keys, key, value, default) == IF key \in keys THEN value ELSE default

\* the registry under construction, or the exception that ended the build
Registry(h) == [raised |-> FALSE, exc |-> "", handlers |-> h]
Abort(e) == [raised |-> TRUE, exc |-> e, handlers |-> <<>>]

\* handlers[name] = handler: a dict keeps a key's position when it is set again
DictSet(h, name, url) ==
    IF \E i \in 1..Len(h) : h[i].name = name
    THEN [i \in 1..Len(h) |-> IF h[i].name = name THEN [name |-> name, url |-> url] ELSE h[i]]
    ELSE Append(h, [name |-> name, url |-> url])

\* the membership test left out: every declared static entry is built
StaticSelected_Unchecked(e) == TRUE

\* if name in cls.STATIC_ENDPOINTS
StaticSelected(e) == e.name \in STATIC_ENDPOINTS

\* if name in cls.YEAR_DEPENDENT_ENDPOINTS and endpoint_config.get('year_dependent')
YearSelected(e) ==
    e.name \in YEAR_DEPENDENT_ENDPOINTS /\ Truthy(Get(e.keys, "year_dependent", e.flag, None))

\* if name in cls.RACE_DEPENDENT_ENDPOINTS and endpoint_config.get('race_dependent')
RaceSelected(e) ==
    e.name \in RACE_DEPENDENT_ENDPOINTS /\ Truthy(Get(e.keys, "race_dependent", e.flag, None))

\* cls.STATIC_ENDPOINTS[name](url=endpoint_config['url'])
BuildStatic(e) ==
    IF e.name \notin STATIC_ENDPOINTS THEN Raise("KeyError")
    ELSE IF "url" \notin e.keys THEN Raise("KeyError")
    ELSE F1_static_url__init__(e.url)

\* cls.YEAR_DEPENDENT_ENDPOINTS[name](template_url=..., year_dependent=..., current_year=...)
BuildYear(e) ==
    IF e.name \notin YEAR_DEPENDENT_ENDPOINTS THEN Raise("KeyError")
    ELSE IF "template_url" \notin e.keys THEN Raise("KeyError")
    ELSE F1_year_url__init__(e.template_url,
                             Get(e.keys, "year_dependent", e.flag, PyBool(TRUE)),
                             Get(e.keys, "current_year", e.current_year,
                                 PyInt(FactoryDefaultYear)))

\* cls.RACE_DEPENDENT_ENDPOINTS[name](template_url=..., race_dependent=True, ...)
BuildRace(e) ==
    IF e.name \notin RACE_DEPENDENT_ENDPOINTS THEN Raise("KeyError")
    ELSE IF "template_url" \notin e.keys THEN Raise("KeyError")
    ELSE F1_race_dependent_url__init__(e.template_url, PyBool(TRUE),
                                       Get(e.keys, "current_year", e.current_year,
                                           PyInt(FactoryDefaultYear)),
                                       Get(e.keys, "current_race", e.current_race,
                                           PyInt(FactoryDefaultRace)))

Selected(section, e) ==
    CASE section = "static_endpoints" -> StaticSelected(e)
      [] section = "year_dependent_endpoints" -> YearSelected(e)
      [] OTHER -> RaceSelected(e)

Build(section, e) ==
    CASE section = "static_endpoints" -> BuildStatic(e)
      [] section = "year_dependent_endpoints" -> BuildYear(e)
      [] OTHER -> BuildRace(e)

\* one for-loop of from_config: an exception leaves the loop and the function
RECURSIVE ProcessSection(_, _, _, _)
ProcessSection(section, entries, i, acc) ==
    IF acc.raised \/ i > Len(entries) THEN acc
    ELSE LET e == entries[i]
             r == Build(section, e)
         IN ProcessSection(section, entries, i + 1,
                IF ~Selected(section, e) THEN acc
                ELSE IF r.raised THEN Abort(r.exc)
                ELSE Registry(DictSet(acc.handlers, e.name, r.url)))

\* config.get(section, {}).items()
Section(config, section) ==
    IF section \notin config.keys THEN <<>>
    ELSE CASE section = "static_endpoints" -> config.static_endpoints
           [] section = "year_dependent_endpoints" -> config.year_dependent_endpoints
           [] OTHER -> config.race_specific_endpoints

from_config(config) ==
    LET s == ProcessSection("static_endpoints", Section(config, "static_endpoints"),
                            1, Registry(<<>>))
        y == ProcessSection("year_dependent_endpoints",
                            Section(config, "year_dependent_endpoints"), 1, s)
    IN ProcessSection("race_specific_endpoints",
                      Section(config, "race_specific_endpoints"), 1, y)

(***************************************************************************)
(* Inputs of the factory and of the descriptor constructors                *)
(***************************************************************************)
MaxEntries == 3
MaxTemplateLen == 3
MaxHandlers == 2

GoodUrl == PyStr(<<"http://", "api/status.json">>)
OtherUrl == PyStr(<<"https://", "api/seasons.json">>)
BadUrl == PyStr(<<"api/status.json">>)
YearTemplate == PyStr(<<"http://api/", "{year}", "/races.json">>)
RaceTemplate == PyStr(<<"http://api/", "{year}", "/", "{race_round}", "/laps.json">>)
RoundTemplate == PyStr(<<"http://api/", "{race_round}", "/laps.json">>)
PlainTemplate == PyStr(<<"http://api/races.json">>)

StaticEntry(name, keys, url) == Entry(name, keys, url, None, None, None, None)
YearEntry(name, keys, template_url, flag, current_year) ==
    Entry(name, keys, None, template_url, flag, current_year, None)
RaceEntry(name, keys, template_url, flag, current_year, current_race) ==
    Entry(name, keys, None, template_url, flag, current_year, current_race)

YearKeys == {"template_url", "year_dependent", "current_year"}
RaceKeys == {"template_url", "race_dependent", "current_year", "current_race"}

StaticEntries ==
    { StaticEntry("status", {"url"}, GoodUrl),
      StaticEntry("status", {}, None),
      StaticEntry("status", {"url"}, BadUrl),
      StaticEntry("season", {"url"}, OtherUrl),
      StaticEntry("race", {"url"}, GoodUrl),
      StaticEntry("weather", {"url"}, GoodUrl),
      StaticEntry("weather", {}, None) }

YearEntries ==
    { YearEntry("race", YearKeys, YearTemplate, PyBool(TRUE), PyInt(DefaultYear)),
      YearEntry("race", YearKeys, YearTemplate, PyBool(FALSE), PyInt(DefaultYear)),
      YearEntry("race", YearKeys \ {"year_dependent"}, YearTemplate, None, PyInt(DefaultYear)),
      YearEntry("race", YearKeys, PlainTemplate, PyBool(TRUE), PyInt(DefaultYear)),
      YearEntry("race", YearKeys \ {"template_url"}, None, PyBool(TRUE), PyInt(DefaultYear)),
      YearEntry("race", YearKeys, YearTemplate, PyBool(TRUE), PyInt(MinYear - 1)),
      YearEntry("race", YearKeys \ {"current_year"}, YearTemplate, PyBool(TRUE), None),
      YearEntry("driver", YearKeys, YearTemplate, PyBool(TRUE), PyInt(MaxYear)),
      YearEntry("status", YearKeys, YearTemplate, PyBool(TRUE), PyInt(DefaultYear)),
      YearEntry("weather", YearKeys, YearTemplate, PyBool(TRUE), PyInt(DefaultYear)) }

RaceEntries ==
    { RaceEntry("pitstop", RaceKeys, RaceTemplate, PyBool(TRUE), PyInt(DefaultYear), PyInt(1)),
      RaceEntry("pitstop", RaceKeys, RaceTemplate, PyBool(FALSE), PyInt(DefaultYear), PyInt(1)),
      RaceEntry("pitstop", RaceKeys, RoundTemplate, PyBool(TRUE), PyInt(DefaultYear), PyInt(1)),
      RaceEntry("pitstop", RaceKeys, YearTemplate, PyBool(TRUE), PyInt(DefaultYear), PyInt(1)),
      RaceEntry("pitstop", RaceKeys, RaceTemplate, PyBool(TRUE), PyInt(DefaultYear),
                PyInt(MaxRace + 1)),
      RaceEntry("pitstop", RaceKeys \ {"template_url"}, None, PyBool(TRUE),
                PyInt(DefaultYear), PyInt(1)),
      RaceEntry("lap", RaceKeys, RaceTemplate, PyBool(TRUE), PyInt(MinYear), PyInt(MaxRace)),
      RaceEntry("race", RaceKeys, RaceTemplate, PyBool(TRUE), PyInt(DefaultYear), PyInt(1)) }

\* the items of a mapping of n entries: the names are its keys, so they differ
Items(S, n) == {q \in [1..n -> S] : \A i, j \in 1..n : i # j => q[i].name # q[j].name}

\* a parsed document: a mapping of the sections it declares
Doc(s, y, r) ==
    [isNone |-> FALSE,
     keys |-> {k \in {"static_endpoints", "year_dependent_endpoints",
                      "race_specific_endpoints"} :
                 \/ k = "static_endpoints" /\ s # <<>>
                 \/ k = "year_dependent_endpoints" /\ y # <<>>
                 \/ k = "race_specific_endpoints" /\ r # <<>>},
     static_endpoints |-> s,
     year_dependent_endpoints |-> y,
     race_specific_endpoints |-> r]

\* yaml.safe_load of an empty file
NoneDoc == [isNone |-> TRUE, keys |-> {}, static_endpoints |-> <<>>,
            year_dependent_endpoints |-> <<>>, race_specific_endpoints |-> <<>>]

TemplateTokens == {"http://api/", "{year}", "{race_round}", "{season}"}
Templates ==
    {None} \cup {PyStr(q) : q \in UNION {[1..n -> TemplateTokens] : n \in 0..MaxTemplateLen}}
Years == {PyInt(MinYear - 1), PyInt(MinYear), PyInt(DefaultYear), PyInt(MaxYear + 1)}
Races == {PyInt(MinRace - 1), PyInt(MinRace), PyInt(FactoryDefaultRace), PyInt(MaxRace + 1)}

NotCalled == [done |-> FALSE, raised |-> FALSE, exc |-> "", handlers |-> <<>>]
NotBuilt == [done |-> FALSE, raised |-> FALSE, exc |-> "", url |-> <<>>]
NoArgs == [cls |-> "", template_url |-> None, current_year |-> None,
           current_race |-> None, year_dependent |-> None]

\* a call on the pipeline: op is initialize or fetch_all_data; noConfig tells
\* whether the configuration file was missing or empty when the call began
NoCall == [op |-> "none", done |-> TRUE, ok |-> FALSE, raised |-> FALSE,
           looped |-> FALSE, noConfig |-> FALSE, data |-> <<>>]
NoPrev == [op |-> "none", ok |-> FALSE, noConfig |-> FALSE]
NoLookup == [op |-> "none", name |-> "", found |-> FALSE, value |-> <<>>]
NoRequest == [cls |-> "", url |-> <<>>, exc |-> "", code |-> 0, json |-> "None"]
NoResponse == [called |-> FALSE, raised |-> FALSE, data |-> "None", resp_msg |-> ""]

(***************************************************************************)
(* Descriptor construction                                                 *)
(***************************************************************************)
DescriptorIdle == dargs = NoArgs /\ dresult = NotBuilt
FactoryIdle == fconfig = NoneDoc /\ fresult = NotCalled
HandlerIdle == request = NoRequest /\ response = NoResponse
PipelineIdle ==
    /\ file = [kind |-> "missing", doc |-> NoneDoc]
    /\ handlers = <<>> /\ data = <<>> /\ pc = "idle" /\ idx = 0
    /\ ret = NoCall /\ prev = NoPrev
    /\ calls = <<>> /\ lookup = NoLookup

InitDescriptor ==
    /\ dargs \in [cls : {"YearDependentURL", "RaceDependentURL"},
                  template_url : Templates, current_year : Years,
                  current_race : Races, year_dependent : {PyBool(TRUE), PyBool(FALSE)}]
    /\ dargs.cls = "RaceDependentURL" => dargs.year_dependent = PyBool(TRUE)
    /\ dargs.cls = "YearDependentURL" => dargs.current_race = PyInt(MinRace)
    /\ dresult = NotBuilt
    /\ FactoryIdle /\ PipelineIdle /\ HandlerIdle

\* YearDependentURL(template_url, current_year, year_dependent)
ConstructYearDependent ==
    /\ ~dresult.done /\ dargs.cls = "YearDependentURL"
    /\ dresult' = [done |-> TRUE] @@
                  YearDependentURL__init__(dargs.template_url, dargs.current_year,
                                           dargs.year_dependent)
    /\ UNCHANGED <<dargs, factoryVars, pipelineVars, handlerVars>>

\* RaceDependentURL(template_url, current_year, current_race)
ConstructRaceDependent ==
    /\ ~dresult.done /\ dargs.cls = "RaceDependentURL"
    /\ dresult' = [done |-> TRUE] @@
                  RaceDependentURL__init__(dargs.template_url, dargs.current_year,
                                           dargs.current_race)
    /\ UNCHANGED <<dargs, factoryVars, pipelineVars, handlerVars>>

NextDescriptor == ConstructYearDependent \/ ConstructRaceDependent
SpecDescriptor == InitDescriptor /\ [][NextDescriptor]_vars

(***************************************************************************)
(* URLFactory.from_config on a parsed document                             *)
(***************************************************************************)
\* the documents of at most MaxEntries entries
InitFactory ==
    /\ \E a \in 0..MaxEntries : \E b \in 0..(MaxEntries - a) : \E c \in 0..(MaxEntries - a - b) :
          \E s \in Items(StaticEntries, a) : \E y \in Items(YearEntries, b) :
              \E r \in Items(RaceEntries, c) : fconfig = Doc(s, y, r)
    /\ fresult = NotCalled
    /\ DescriptorIdle /\ PipelineIdle /\ HandlerIdle

FromConfig ==
    /\ ~fresult.done
    /\ fresult' = [done |-> TRUE] @@ from_config(fconfig)
    /\ UNCHANGED <<fconfig, descriptorVars, pipelineVars, handlerVars>>

NextFactory == FromConfig
SpecFactory == InitFactory /\ [][NextFactory]_vars

(***************************************************************************)
(* APIResponse and the handlers' get_data                                  *)
(***************************************************************************)
\* the values response.json() decodes in the model; "None" is JSON null
JsonDicts == {"{'x': 1}", "{}"}
JsonValues == JsonDicts \cup {"None", "[1]"}
StatusOK == 200
StatusCodes == {StatusOK, 404, 500}
TransportErrors == {"ConnectError", "ReadTimeout"}

\* what one client.get(self.url) can do: raise a transport error (exc), or
\* answer with a status code and a body that decodes to json or does not
HttpOutcomes(errors, codes) ==
    {[exc |-> e, code |-> 0, json |-> "None"] : e \in errors}
    \cup {[exc |-> "", code |-> StatusOK, json |-> j] :
            j \in JsonValues \cup {"JSONDecodeError"}}
    \cup {[exc |-> "", code |-> c, json |-> "None"] : c \in codes \ {StatusOK}}

Envelope(d, resp_msg) == [raised |-> FALSE, data |-> d, resp_msg |-> resp_msg]
ValidationError == [raised |-> TRUE, data |-> "None", resp_msg |-> ""]

\* APIResponse(data=..., resp_msg=...): data is Optional[Dict[str, Any]] and
\* validate_resp_msg accepts the two literals only
APIResponse(d, resp_msg) ==
    IF (d = "None" \/ d \in JsonDicts) /\ resp_msg \in {"Success", "Failed"}
    THEN Envelope(d, resp_msg)
    ELSE ValidationError

\* StaticURL.get_data, YearDependentURL.get_data, RaceDependentURL.get_data:
\* the three bodies are the same.  An exception inside the try block, the
\* envelope's own ValidationError included, goes to the except clause, and
\* what the except clause raises leaves get_data.
get_data(http) ==
    LET failed == APIResponse("None", "Failed with status code: " \o ToString(http.code))
        except == APIResponse("None", "Error: " \o (IF http.exc # "" THEN http.exc
                                                    ELSE IF http.json = "JSONDecodeError"
                                                    THEN http.json
                                                    ELSE "ValidationError"))
        success == APIResponse(http.json, "Success")
    IN IF http.exc # "" THEN except
       ELSE IF http.code = StatusOK
       THEN IF http.json = "JSONDecodeError" \/ success.raised THEN except ELSE success
       ELSE IF failed.raised THEN except ELSE failed

(***************************************************************************)
(* A handler's get_data on its own                                         *)
(***************************************************************************)
InitHandler ==
    /\ request \in {[cls |-> c, url |-> u, exc |-> h.exc, code |-> h.code, json |-> h.json] :
                      c \in {"StaticURL", "YearDependentURL", "RaceDependentURL"},
                      u \in {GoodUrl.s, OtherUrl.s},
                      h \in HttpOutcomes(TransportErrors, StatusCodes)}
    /\ response = NoResponse
    /\ FactoryIdle /\ DescriptorIdle /\ PipelineIdle

Returned(resp) == [called |-> TRUE, raised |-> resp.raised, data |-> resp.data,
                   resp_msg |-> resp.resp_msg]

StaticGetData ==
    /\ ~response.called /\ request.cls = "StaticURL"
    /\ response' = Returned(get_data(request))
    /\ UNCHANGED <<request, pipelineVars, factoryVars, descriptorVars>>

YearDependentGetData ==
    /\ ~response.called /\ request.cls = "YearDependentURL"
    /\ response' = Returned(get_data(request))
    /\ UNCHANGED <<request, pipelineVars, factoryVars, descriptorVars>>

RaceDependentGetData ==
    /\ ~response.called /\ request.cls = "RaceDependentURL"
    /\ response' = Returned(get_data(request))
    /\ UNCHANGED <<request, pipelineVars, factoryVars, descriptorVars>>

NextHandler == StaticGetData \/ YearDependentGetData \/ RaceDependentGetData
SpecHandler == InitHandler /\ [][NextHandler]_vars

(***************************************************************************)
(* yaml_reader.load_yaml_file and url_factory.create_handlers_from_yaml    *)
(***************************************************************************)
\* the file: missing (FileNotFoundError), not YAML (YAMLError), empty
\* (safe_load gives None), or a mapping
load_yaml_file(f) ==
    CASE f.kind = "missing" -> NoneDoc
      [] f.kind = "invalid" -> NoneDoc
      [] f.kind = "empty" -> NoneDoc
      [] OTHER -> f.doc

\* not config: None and the empty mapping are falsy
NotConfig(doc) == doc.isNone \/ doc.keys = {}

create_handlers_from_yaml(f) ==
    LET config == load_yaml_file(f)
    IN IF NotConfig(config) THEN Abort("ValueError") ELSE from_config(config)

(***************************************************************************)
(* F1DataPipeline                                                          *)
(***************************************************************************)
\* initialize() with self.handlers emptied before the configuration is loaded
initialize_resetting(f, h) ==
    LET config == load_yaml_file(f)
        c == create_handlers_from_yaml(f)
    IN IF NotConfig(config) \/ c.raised
       THEN [ok |-> FALSE, handlers |-> <<>>]
       ELSE [ok |-> TRUE, handlers |-> c.handlers]

\* initialize(): the value returned and self.handlers afterwards
initialize(f, h) ==
    LET config == load_yaml_file(f)
        c == create_handlers_from_yaml(f)
    IN IF NotConfig(config) \/ c.raised
       THEN [ok |-> FALSE, handlers |-> h]
       ELSE [ok |-> TRUE, handlers |-> c.handlers]

\* self.data[name] = value
DataSet(d, name, value) ==
    [n \in DOMAIN d \cup {name} |-> IF n = name THEN value ELSE d[n]]

\* the body of fetch_all_data's loop without its try: what get_data raises
\* leaves the loop and the call
fetch_one_uncaught(d, name, resp) ==
    IF resp.raised THEN [raised |-> TRUE, data |-> d]
    ELSE IF resp.resp_msg = "Success"
    THEN [raised |-> FALSE, data |-> DataSet(d, name, resp.data)]
    ELSE [raised |-> FALSE, data |-> d]

\* the body of fetch_all_data's loop for one handler: self.data afterwards,
\* and whether an exception leaves the loop
fetch_one(d, name, resp) ==
    IF resp.raised THEN [raised |-> FALSE, data |-> d]
    ELSE IF resp.resp_msg = "Success"
    THEN [raised |-> FALSE, data |-> DataSet(d, name, resp.data)]
    ELSE [raised |-> FALSE, data |-> d]

\* F1DataPipeline.get_data(endpoint_name)
pipeline_get_data(d, endpoint_name) ==
    IF endpoint_name \in DOMAIN d THEN d[endpoint_name] ELSE "None"

\* F1DataPipeline.get_handler(endpoint_name): self.handlers.get(endpoint_name),
\* the handler (its url) or None
pipeline_get_handler(h, endpoint_name) ==
    IF \E i \in 1..Len(h) : h[i].name = endpoint_name
    THEN [found |-> TRUE, value |-> h[CHOOSE i \in 1..Len(h) : h[i].name = endpoint_name].url]
    ELSE [found |-> FALSE, value |-> <<>>]

\* the file was missing or empty
NoConfig(f) == f.kind \in {"missing", "empty"} \/ (f.kind = "mapping" /\ NotConfig(f.doc))

Call(op, f) == [op |-> op, done |-> FALSE, ok |-> FALSE, raised |-> FALSE,
                looped |-> FALSE, noConfig |-> NoConfig(f), data |-> <<>>]
Before(c) == [op |-> c.op, ok |-> c.ok, noConfig |-> c.noConfig]

\* the static endpoints the factory knows, each with a url it accepts
KnownStatic == <<StaticEntry("status", {"url"}, GoodUrl),
                 StaticEntry("season", {"url"}, OtherUrl),
                 StaticEntry("circuit", {"url"}, GoodUrl)>>

\* the documents the configuration file holds: registries of up to MaxHandlers
\* handlers, a registry without handlers, and documents the factory rejects
PipelineDocs ==
    { Doc(SubSeq(KnownStatic, 1, n), <<>>, <<>>) :
        n \in 0..(IF MaxHandlers < Len(KnownStatic) THEN MaxHandlers ELSE Len(KnownStatic)) }
    \cup
    { Doc(<<StaticEntry("season", {"url"}, OtherUrl)>>, <<>>, <<>>),
      Doc(<<StaticEntry("weather", {"url"}, GoodUrl)>>, <<>>, <<>>),
      Doc(<<StaticEntry("status", {}, None)>>, <<>>, <<>>),
      Doc(<<StaticEntry("status", {"url"}, GoodUrl)>>,
          <<YearEntry("race", YearKeys, YearTemplate, PyBool(TRUE), PyInt(DefaultYear))>>,
          <<>>) }

\* the GET outcomes the pipeline's handlers meet
PipelineErrors == {"ConnectError"}
PipelineCodes == {StatusOK, 404}

PipelineFiles ==
    {[kind |-> k, doc |-> NoneDoc] : k \in {"missing", "invalid", "empty"}}
    \cup {[kind |-> "mapping", doc |-> d] : d \in PipelineDocs}

Init ==
    /\ file \in PipelineFiles
    /\ handlers = <<>> /\ data = <<>> /\ pc = "idle" /\ idx = 0
    /\ ret = NoCall /\ prev = NoPrev /\ calls = <<>> /\ lookup = NoLookup
    /\ FactoryIdle /\ DescriptorIdle /\ HandlerIdle

\* the configuration file is written, replaced or removed between two calls
SetConfig ==
    /\ pc = "idle"
    /\ \E f \in PipelineFiles : f # file /\ file' = f
    /\ UNCHANGED <<handlers, data, pc, idx, ret, prev, calls, lookup,
                   handlerVars, factoryVars, descriptorVars>>

\* a caller runs initialize()
Initialize ==
    /\ pc = "idle"
    /\ LET r == initialize(file, handlers)
       IN /\ handlers' = r.handlers
          /\ ret' = [Call("initialize", file) EXCEPT !.done = TRUE, !.ok = r.ok]
    /\ prev' = Before(ret)
    /\ calls' = <<>>
    /\ UNCHANGED <<file, data, pc, idx, lookup, handlerVars, factoryVars, descriptorVars>>

\* a caller runs fetch_all_data(): up to the loop, or to the early return {}
FetchAllBegin ==
    /\ pc = "idle"
    /\ prev' = Before(ret)
    /\ calls' = <<>>
    /\ LET r == IF handlers = <<>> THEN initialize(file, handlers)
                ELSE [ok |-> TRUE, handlers |-> handlers]
       IN /\ handlers' = r.handlers
          /\ IF r.ok
             THEN /\ pc' = "loop" /\ idx' = 1
                  /\ ret' = [Call("fetch_all_data", file) EXCEPT !.looped = TRUE]
             ELSE /\ pc' = "idle" /\ idx' = 0
                  /\ ret' = [Call("fetch_all_data", file) EXCEPT !.done = TRUE, !.ok = TRUE]
    /\ UNCHANGED <<file, data, lookup, handlerVars, factoryVars, descriptorVars>>

\* one iteration of the loop: handler.get_data() and what the loop does with it
FetchStep ==
    /\ pc = "loop" /\ idx <= Len(handlers)
    /\ \E http \in HttpOutcomes(PipelineErrors, PipelineCodes) :
          LET name == handlers[idx].name
              resp == get_data(http)
              step == fetch_one(data, name, resp)
          IN /\ calls' = [n \in DOMAIN calls \cup {name} |->
                             IF n = name
                             THEN (IF n \in DOMAIN calls THEN calls[n] ELSE <<>>) \o <<resp>>
                             ELSE calls[n]]
             /\ data' = step.data
             /\ IF step.raised
                THEN /\ pc' = "idle" /\ idx' = 0
                     /\ ret' = [ret EXCEPT !.done = TRUE, !.raised = TRUE]
                ELSE /\ pc' = pc /\ idx' = idx + 1
                     /\ ret' = ret
    /\ UNCHANGED <<file, handlers, prev, lookup, handlerVars, factoryVars, descriptorVars>>

\* the loop is over: return self.data
FetchAllReturn ==
    /\ pc = "loop" /\ idx > Len(handlers)
    /\ pc' = "idle" /\ idx' = 0
    /\ ret' = [ret EXCEPT !.done = TRUE, !.ok = TRUE, !.data = data]
    /\ UNCHANGED <<file, handlers, data, prev, calls, lookup,
                   handlerVars, factoryVars, descriptorVars>>

Next == SetConfig \/ Initialize \/ FetchAllBegin \/ FetchStep \/ FetchAllReturn
Spec == Init /\ [][Next]_vars

(***************************************************************************)
(* F1DataPipeline with the lookups get_handler and get_data                *)
(***************************************************************************)
\* the names callers look up: one the factory knows, one it does not
LookupNames == {"status", "weather"}

\* a caller runs get_handler(endpoint_name)
GetHandler ==
    /\ pc = "idle"
    /\ \E name \in LookupNames :
          LET r == pipeline_get_handler(handlers, name)
          IN lookup' = [op |-> "get_handler", name |-> name,
                        found |-> r.found, value |-> r.value]
    /\ pc' = "lookup"
    /\ UNCHANGED <<file, handlers, data, idx, ret, prev, calls,
                   handlerVars, factoryVars, descriptorVars>>

\* a caller runs get_data(endpoint_name)
GetData ==
    /\ pc = "idle"
    /\ \E name \in LookupNames :
          LET v == pipeline_get_data(data, name)
          IN lookup' = [op |-> "get_data", name |-> name,
                        found |-> v # "None", value |-> <<v>>]
    /\ pc' = "lookup"
    /\ UNCHANGED <<file, handlers, data, idx, ret, prev, calls,
                   handlerVars, factoryVars, descriptorVars>>

\* the caller has the value and goes on
LookupReturn ==
    /\ pc = "lookup"
    /\ pc' = "idle" /\ lookup' = NoLookup
    /\ UNCHANGED <<file, handlers, data, idx, ret, prev, calls,
                   handlerVars, factoryVars, descriptorVars>>

NextLookup == Next \/ GetHandler \/ GetData \/ LookupReturn
SpecLookup == Init /\ [][NextLookup]_vars

(***************************************************************************)
(* Properties of the factory and of the descriptors                        *)
(***************************************************************************)
SectionNames == {"static_endpoints", "year_dependent_endpoints", "race_specific_endpoints"}

KnownNames(section) ==
    CASE section = "static_endpoints" -> STATIC_ENDPOINTS
      [] section = "year_dependent_endpoints" -> YEAR_DEPENDENT_ENDPOINTS
      [] OTHER -> RACE_DEPENDENT_ENDPOINTS

FlagKey(section) ==
    IF section = "year_dependent_endpoints" THEN "year_dependent" ELSE "race_dependent"

\* the entries a document declares in a section
Declared(config, section) ==
    {Section(config, section)[i] : i \in 1..Len(Section(config, section))}

HandlerNames(h) == {h[i].name : i \in 1..Len(h)}
HandlerUrl(h, name) == (CHOOSE i \in 1..Len(h) : h[i].name = name)

\* C4 as claimed: from_config builds each declared endpoint independently: an
\* entry whose construction fails is skipped, the build does not abort, and the
\* registry holds the handler of every other entry that is selected and
\* constructs without error.
C4_BuildsIndependently ==
    (/\ fresult.done
     /\ \E section \in SectionNames : \E e \in Declared(fconfig, section) :
           Selected(section, e) /\ ~Build(section, e).raised) =>
        /\ ~fresult.raised
        /\ \A section \in SectionNames : \A e \in Declared(fconfig, section) :
              (Selected(section, e) /\ ~Build(section, e).raised) =>
                  /\ e.name \in HandlerNames(fresult.handlers)
                  /\ fresult.handlers[HandlerUrl(fresult.handlers, e.name)].url
                        = Build(section, e).url

\* the url C5 expects: the template with both replacement fields substituted
C5_Resolved(template, year, race) ==
    [i \in 1..Len(template.s) |->
        CASE template.s[i] = "{year}" -> ToString(year)
          [] template.s[i] = "{race_round}" -> ToString(race)
          [] OTHER -> template.s[i]]

\* an entry C5 covers: known name, flag true, placeholders present, values in range
C5_WellFormed(section, e) ==
    /\ section \in {"year_dependent_endpoints", "race_specific_endpoints"}
    /\ e.name \in KnownNames(section)
    /\ FlagKey(section) \in e.keys /\ e.flag = PyBool(TRUE)
    /\ "template_url" \in e.keys /\ Contains(e.template_url, "{year}")
    /\ "current_year" \in e.keys /\ e.current_year.t = "int"
    /\ e.current_year.v >= MinYear /\ e.current_year.v <= MaxYear
    /\ section = "race_specific_endpoints" =>
          /\ Contains(e.template_url, "{race_round}")
          /\ "current_race" \in e.keys /\ e.current_race.t = "int"
          /\ e.current_race.v >= MinRace /\ e.current_race.v <= MaxRace

\* C5 as claimed: for every well-formed entry of year_dependent_endpoints or
\* race_specific_endpoints, from_config inserts a handler under its name whose
\* url is the template with {year} and {race_round} substituted.
C5_ResolvesTemplates ==
    fresult.done =>
        \A section \in SectionNames : \A e \in Declared(fconfig, section) :
            C5_WellFormed(section, e) =>
                /\ ~fresult.raised
                /\ e.name \in HandlerNames(fresult.handlers)
                /\ fresult.handlers[HandlerUrl(fresult.handlers, e.name)].url
                      = C5_Resolved(e.template_url, e.current_year.v, e.current_race.v)

\* an entry C10 calls unrecognised: its name is not in the table of the section
\* that declares it, or its year_dependent / race_dependent flag is missing or false
C10_Unrecognised(section, e) ==
    \/ e.name \notin KnownNames(section)
    \/ /\ section # "static_endpoints"
       /\ (FlagKey(section) \notin e.keys \/ e.flag = PyBool(FALSE))

C10_Keep(section, entries) == SelectSeq(entries, LAMBDA e : ~C10_Unrecognised(section, e))

\* the document without its unrecognised entries
C10_Recognised(config) ==
    [config EXCEPT
        !.static_endpoints = C10_Keep("static_endpoints", @),
        !.year_dependent_endpoints = C10_Keep("year_dependent_endpoints", @),
        !.race_specific_endpoints = C10_Keep("race_specific_endpoints", @)]

\* C10: unrecognised entries are omitted without error: from_config returns (or
\* raises) exactly what it does on the document without them, it returns
\* normally when every entry is unrecognised, and every key of the returned
\* registry is a known name of the section that declares it.
C10_UnknownEntriesSkipped ==
    fresult.done =>
        /\ [done |-> TRUE] @@ from_config(C10_Recognised(fconfig)) = fresult
        /\ (\A section \in SectionNames : \A e \in Declared(fconfig, section) :
                C10_Unrecognised(section, e)) => ~fresult.raised
        /\ \A name \in HandlerNames(fresult.handlers) :
              \E section \in SectionNames :
                  /\ name \in KnownNames(section)
                  /\ \E e \in Declared(fconfig, section) : e.name = name

\* a build that returned a handler from a document that also declares a name
\* known only in another section and a known name with a false flag
C10_Witness ==
    /\ fresult.done /\ ~fresult.raised /\ fresult.handlers # <<>>
    /\ \E e \in Declared(fconfig, "static_endpoints") : e.name \in YEAR_DEPENDENT_ENDPOINTS
    /\ \E e \in Declared(fconfig, "year_dependent_endpoints") :
          e.name \in YEAR_DEPENDENT_ENDPOINTS /\ e.flag = PyBool(FALSE)

\* C9 as claimed: constructing a descriptor whose kind involves year-dependence
\* raises whenever its template is absent or lacks the {year} placeholder, for
\* YearDependentURL and for RaceDependentURL alike.
C9_YearPlaceholderRequired ==
    (/\ dresult.done
     /\ Truthy(dargs.year_dependent)
     /\ (~Truthy(dargs.template_url) \/ ~Contains(dargs.template_url, "{year}")))
        => dresult.raised

(***************************************************************************)
(* Properties of the handlers' get_data                                    *)
(***************************************************************************)
\* C2 as claimed: a handler's get_data never raises: whatever the GET does it
\* returns an envelope, and for a non-200 status or a transport exception the
\* envelope is not Success and carries no payload.
C2_GetDataNeverRaises ==
    response.called =>
        /\ ~response.raised
        /\ (request.exc # "" \/ request.code # StatusOK) =>
              (response.resp_msg # "Success" /\ response.data = "None")

\* C8 as claimed: in every envelope get_data returns, the payload is present if
\* and only if the status is Success, a 200 response with a null body included.
C8_PayloadIffSuccess ==
    (response.called /\ ~response.raised) =>
        (response.data # "None" <=> response.resp_msg = "Success")

(***************************************************************************)
(* Properties of the pipeline                                              *)
(***************************************************************************)
Succeeded(resp) == ~resp.raised /\ resp.resp_msg = "Success"
FetchedNow(name) == name \in DOMAIN calls /\ \E i \in 1..Len(calls[name]) : Succeeded(calls[name][i])

\* C1 as claimed: after every fetch_all_data() call the returned mapping, and
\* the state get_data reads, hold an entry for a name only if that endpoint's
\* fetch in this call returned Success.
C1_OnlyFreshEntries ==
    (ret.op = "fetch_all_data" /\ ret.done) =>
        \A name \in DOMAIN ret.data \cup
                     {n \in DOMAIN data : pipeline_get_data(data, n) # "None"} :
            FetchedNow(name)

\* C3: in every fetch_all_data() call get_data runs on each handler of the
\* registry exactly once, in registry order, whatever the earlier handlers
\* returned or raised; the call returns normally and its result holds, under
\* its name, the payload of every handler that returned Success in this call.
C3_EveryHandlerFetchedOnce ==
    /\ pc = "loop" =>
          /\ ~ret.done /\ idx \in 1..(Len(handlers) + 1)
          /\ \A i \in 1..Len(handlers) :
                IF i < idx
                THEN handlers[i].name \in DOMAIN calls /\ Len(calls[handlers[i].name]) = 1
                ELSE handlers[i].name \notin DOMAIN calls
    /\ (ret.op = "fetch_all_data" /\ ret.done) =>
          /\ ~ret.raised
          /\ ret.looped =>
                /\ DOMAIN calls = HandlerNames(handlers)
                /\ \A name \in DOMAIN calls :
                      /\ Len(calls[name]) = 1
                      /\ Succeeded(calls[name][1]) =>
                            (name \in DOMAIN ret.data /\ ret.data[name] = calls[name][1].data)

\* a call over two handlers that returned after the first handler's get_data
\* raised and the second one's returned Success
C3_Witness ==
    /\ ret.op = "fetch_all_data" /\ ret.done /\ ret.looped
    /\ Len(handlers) >= 2
    /\ calls[handlers[1].name][1].raised
    /\ Succeeded(calls[handlers[2].name][1])
    /\ handlers[2].name \in DOMAIN ret.data

\* C6 as claimed: initialize() returns False whenever the configuration cannot
\* be loaded or the factory's registry has no handlers, and True only when at
\* least one handler was built.
C6_InitializeNeedsHandlers ==
    (ret.op = "initialize" /\ ret.done) =>
        /\ ret.noConfig => ~ret.ok
        /\ ret.ok => handlers # <<>>

\* C7 as claimed: in any reachable state, an initialize() call made while the
\* configuration document is empty or missing returns failure, and the
\* fetch_all_data() call that follows it returns an empty mapping and does not
\* raise.
C7_NoConfigFetchesNothing ==
    /\ (ret.op = "initialize" /\ ret.noConfig) => ~ret.ok
    /\ (/\ prev.op = "initialize" /\ prev.noConfig
        /\ ret.op = "fetch_all_data" /\ ret.noConfig /\ ret.done) =>
          (~prev.ok /\ ~ret.raised /\ ret.data = <<>>)


\* C11: an initialize() call that returns failure, made by the caller or by
\* fetch_all_data on an empty registry, leaves the handler registry and the
\* stored data as they were before the call; get_handler(name) and
\* get_data(name) never change the registry or the stored data.
C11_FailedInitializeAndLookupsKeepState ==
    [][/\ (Initialize /\ ~ret'.ok) => (handlers' = handlers /\ data' = data)
       /\ (FetchAllBegin /\ ret'.done) => (handlers' = handlers /\ data' = data)
       /\ (GetHandler \/ GetData) => (handlers' = handlers /\ data' = data)]_vars

\* a failed initialize() on a pipeline that holds a registry and stored data,
\* followed by a lookup that found the stored payload
C11_Witness ==
    /\ ret.op = "initialize" /\ ret.done /\ ~ret.ok
    /\ handlers # <<>> /\ data # <<>>
    /\ lookup.op = "get_data" /\ lookup.found

====
